---- MODULE Spec2Model ----
(***************************************************************************)
(* Model of src/metrics.py: the ranked-retrieval evaluation metrics         *)
(* precision@k, average precision, MAP, gMAP and Kendall's tau.             *)
(*                                                                         *)
(* Every function of the file is pure, so a behaviour is one call: Init     *)
(* draws the function and its arguments, the function's action applies it   *)
(* and stores what the call returned or raised.                             *)
(*                                                                         *)
(* Numbers.  numpy's float64 results are modelled as exact extended         *)
(* rationals: a value is a record [kind, num, den, root].                   *)
(*   kind = "fin"  : the number (num/den)^(1/root), den > 0, num/den in     *)
(*                   lowest terms; root = 1 except for a geometric mean     *)
(*   kind = "log"  : the number ln(num/den)/root, num > 0 (log space)       *)
(*   kind = "taub" : the number num/den^(1/2) (a tau-b with ties)            *)
(*   kind = "inf", "ninf", "nan" : IEEE +inf, -inf, NaN                     *)
(*   kind = "none" : no value (the call raised)                             *)
(* Rounding error of float64 is not modelled.                               *)
(***************************************************************************)
EXTENDS Integers, Sequences, FiniteSets, TLC

VARIABLES fn, rel, k, num_rel_docs, rels, rankA, rankB, A, B, pc, result

vars == <<fn, rel, k, num_rel_docs, rels, rankA, rankB, A, B, pc, result>>

(***************************************************************************)
(* Bounds of the model.                                                     *)
(***************************************************************************)
\* longest generic relevance list
MaxLen == 3
\* how far the depth k may exceed the length of the list
MaxPad == 2
\* largest generic number of relevant documents
MaxR == 3
\* longest relevance list inside a batch
MaxBatchLen == 2
\* largest number of relevant documents inside a batch
MaxBatchR == 2
\* largest batch
MaxBatch == 2
\* number of document identifiers
NumIds == 3
\* longest ranked list of identifiers
MaxRank == 3

(***************************************************************************)
(* Extended rational arithmetic (numpy float64, exactly).                   *)
(***************************************************************************)
Abs(x) == IF x < 0 THEN -x ELSE x

RECURSIVE GCD(_, _)
GCD(a, b) == IF b = 0 THEN a ELSE GCD(b, a % b)

NaN == [kind |-> "nan", num |-> 0, den |-> 0, root |-> 1]

Inf == [kind |-> "inf", num |-> 1, den |-> 0, root |-> 1]

NInf == [kind |-> "ninf", num |-> -1, den |-> 0, root |-> 1]

NoValue == [kind |-> "none", num |-> 0, den |-> 0, root |-> 1]

\* the rational n/d, d # 0, in lowest terms with a positive denominator
Fin(n, d) ==
  LET g == GCD(Abs(n), Abs(d))
      s == IF d < 0 THEN -1 ELSE 1
  IN [kind |-> "fin", num |-> (s * n) \div g, den |-> (s * d) \div g, root |-> 1]

Zero == Fin(0, 1)

\* a + b in IEEE arithmetic
ExtAdd(a, b) ==
  IF a.kind = "nan" \/ b.kind = "nan" THEN NaN
  ELSE IF a.kind = "inf" THEN (IF b.kind = "ninf" THEN NaN ELSE Inf)
  ELSE IF a.kind = "ninf" THEN (IF b.kind = "inf" THEN NaN ELSE NInf)
  ELSE IF b.kind \in {"inf", "ninf"} THEN b
  ELSE Fin(a.num * b.den + b.num * a.den, a.den * b.den)

\* a / n for an integer n in IEEE arithmetic: x/0 is +-inf, 0/0 is NaN
\* (numpy warns and returns the value, it does not raise)
ExtDivInt(a, n) ==
  IF a.kind = "nan" THEN NaN
  ELSE IF a.kind = "inf" THEN (IF n < 0 THEN NInf ELSE Inf)
  ELSE IF a.kind = "ninf" THEN (IF n < 0 THEN Inf ELSE NInf)
  ELSE IF n = 0 THEN (IF a.num > 0 THEN Inf ELSE IF a.num < 0 THEN NInf ELSE NaN)
  ELSE Fin(a.num, a.den * n)

\* a <= b for finite values with root 1
RatLeq(a, b) == a.num * b.den <= b.num * a.den

RECURSIVE IntSum(_)
IntSum(xs) == IF xs = <<>> THEN 0 ELSE Head(xs) + IntSum(Tail(xs))

RECURSIVE np_sum(_)
\* np.sum of a list of float values; np.sum([]) is 0.0
np_sum(vs) == IF vs = <<>> THEN Zero ELSE ExtAdd(Head(vs), np_sum(Tail(vs)))

\* np.mean of a list of integers; np.mean([]) is NaN
np_mean_int(xs) == IF Len(xs) = 0 THEN NaN ELSE Fin(IntSum(xs), Len(xs))

\* np.mean of a list of float values; np.mean([]) is NaN
np_mean(vs) == IF Len(vs) = 0 THEN NaN ELSE ExtDivInt(np_sum(vs), Len(vs))

(***************************************************************************)
(* Results of a call: a returned value or a raised error.                   *)
(***************************************************************************)
Ok(v) == [status |-> "ok", value |-> v]

Raise(e) == [status |-> e, value |-> NoValue]

NoResult == [status |-> "none", value |-> NoValue]

\* the first error among a list of results, if any ([... for ...] stops at
\* the first call that raises)
RECURSIVE FirstError(_)
FirstError(rs) ==
  IF rs = <<>> THEN NoResult
  ELSE IF Head(rs).status # "ok" THEN Head(rs)
  ELSE FirstError(Tail(rs))

Values(rs) == [i \in 1..Len(rs) |-> rs[i].value]

(***************************************************************************)
(* precision_at_k, precision_at_k_wrapper, mean_precision_at_k              *)
(***************************************************************************)
\* rel[:k] for 0 <= k
Prefix(rel0, k0) == SubSeq(rel0, 1, IF k0 < Len(rel0) THEN k0 ELSE Len(rel0))

\* precision_at_k taking the mean of the whole list instead of rel[:k]
precision_at_k_whole_list(rel0, k0) ==
  IF ~(k0 >= 1 /\ k0 <= Len(rel0)) THEN Raise("InvalidDepth")
  ELSE Ok(np_mean_int(rel0))

\* precision_at_k asserting k >= 0 instead of k >= 1
precision_at_k_zero_depth(rel0, k0) ==
  IF ~(k0 >= 0 /\ k0 <= Len(rel0)) THEN Raise("InvalidDepth")
  ELSE Ok(np_mean_int(Prefix(rel0, k0)))

\* np.zeros(n)
np_zeros(n) == [i \in 1..n |-> 0]

precision_at_k(rel0, k0) ==
  IF ~(k0 >= 1 /\ k0 <= Len(rel0)) THEN Raise("InvalidDepth")
  ELSE Ok(np_mean_int(Prefix(rel0, k0)))

\* precision_at_k_wrapper padding one zero too few
precision_at_k_wrapper_short_pad(rel0, k0) ==
  IF k0 > Len(rel0)
  THEN precision_at_k(rel0 \o np_zeros(k0 - Len(rel0) - 1), k0)
  ELSE precision_at_k(rel0, k0)

precision_at_k_wrapper(rel0, k0) ==
  IF k0 > Len(rel0)
  THEN precision_at_k(rel0 \o np_zeros(k0 - Len(rel0)), k0)
  ELSE precision_at_k(rel0, k0)

mean_precision_at_k(rels0, k0) ==
  LET precisions == [i \in 1..Len(rels0) |-> precision_at_k(rels0[i], k0)]
  IN IF FirstError(precisions).status # "none" THEN FirstError(precisions)
     ELSE Ok(np_mean(Values(precisions)))

(***************************************************************************)
(* average_precision, mean_average_precision,                               *)
(* geometric_mean_average_precision                                         *)
(***************************************************************************)
\* np.arange(first, last+1) as a list
np_arange(first, last) == [i \in 1..(last - first + 1) |-> first + i - 1]

\* average_precision normalised by the length of the list
average_precision_by_length(rel0, num_rel_docs0) ==
  LET N == Len(rel0)
      ranks == SelectSeq(np_arange(1, N), LAMBDA j : rel0[j] # 0)
      precisions == [i \in 1..Len(ranks) |-> precision_at_k(rel0, ranks[i])]
  IN IF FirstError(precisions).status # "none" THEN FirstError(precisions)
     ELSE Ok(ExtDivInt(np_sum(Values(precisions)), N))

\* average_precision summing the precision at every rank, relevant or not
average_precision_every_rank(rel0, num_rel_docs0) ==
  LET N == Len(rel0)
      precisions == [i \in 1..N |-> precision_at_k(rel0, i)]
  IN IF FirstError(precisions).status # "none" THEN FirstError(precisions)
     ELSE Ok(ExtDivInt(np_sum(Values(precisions)), num_rel_docs0))

average_precision(rel0, num_rel_docs0) ==
  LET N == Len(rel0)
      ranks == SelectSeq(np_arange(1, N), LAMBDA j : rel0[j] # 0)
      precisions == [i \in 1..Len(ranks) |-> precision_at_k(rel0, ranks[i])]
  IN IF FirstError(precisions).status # "none" THEN FirstError(precisions)
     ELSE Ok(ExtDivInt(np_sum(Values(precisions)), num_rel_docs0))

mean_average_precision(rels0) ==
  LET avps == [i \in 1..Len(rels0) |-> average_precision(rels0[i][1], rels0[i][2])]
  IN IF FirstError(avps).status # "none" THEN FirstError(avps)
     ELSE Ok(np_mean(Values(avps)))

\* np.log under np.errstate(divide='ignore'): log(0) is -inf without a
\* warning, the log of a negative number is NaN (a warning, not an error)
np_log(v) ==
  IF v.kind = "fin"
  THEN (IF v.num > 0 THEN [v EXCEPT !.kind = "log"]
        ELSE IF v.num = 0 THEN NInf ELSE NaN)
  ELSE IF v.kind = "inf" THEN Inf
  ELSE NaN

\* a + b for two values in log space: ln(p) + ln(q) = ln(p*q)
LogAdd(a, b) ==
  IF a.kind = "nan" \/ b.kind = "nan" THEN NaN
  ELSE IF a.kind = "inf" THEN (IF b.kind = "ninf" THEN NaN ELSE Inf)
  ELSE IF a.kind = "ninf" THEN (IF b.kind = "inf" THEN NaN ELSE NInf)
  ELSE IF b.kind \in {"inf", "ninf"} THEN b
  ELSE [Fin(a.num * b.num, a.den * b.den) EXCEPT !.kind = "log"]

RECURSIVE LogSum(_)
LogSum(ls) == IF Len(ls) = 1 THEN ls[1] ELSE LogAdd(Head(ls), LogSum(Tail(ls)))

\* np.mean of a list of logs: (ln(p1) + ... + ln(pn)) / n = ln(p1*...*pn) / n
np_mean_log(ls) ==
  IF Len(ls) = 0 THEN NaN
  ELSE IF LogSum(ls).kind = "log" THEN [LogSum(ls) EXCEPT !.root = Len(ls)]
  ELSE LogSum(ls)

\* np.exp: exp(-inf) is 0, exp(ln(p)/n) is the n-th root of p
np_exp(l) ==
  IF l.kind = "log" THEN [l EXCEPT !.kind = "fin"]
  ELSE IF l.kind = "ninf" THEN Zero
  ELSE l

\* geometric_mean_average_precision without np.errstate in a strict numeric
\* environment: log(0) raises
geometric_mean_average_precision_strict(rels0) ==
  LET aps == [i \in 1..Len(rels0) |-> average_precision(rels0[i][1], rels0[i][2])]
      avps == [i \in 1..Len(rels0) |-> np_log(aps[i].value)]
  IN IF FirstError(aps).status # "none" THEN FirstError(aps)
     ELSE IF \E i \in 1..Len(rels0) : aps[i].value = Zero
          THEN Raise("FloatingPointError")
     ELSE Ok(np_exp(np_mean_log(avps)))

geometric_mean_average_precision(rels0) ==
  LET aps == [i \in 1..Len(rels0) |-> average_precision(rels0[i][1], rels0[i][2])]
      avps == [i \in 1..Len(rels0) |-> np_log(aps[i].value)]
  IN IF FirstError(aps).status # "none" THEN FirstError(aps)
     ELSE Ok(np_exp(np_mean_log(avps)))

(***************************************************************************)
(* kendall_tau                                                              *)
(***************************************************************************)
\* set(rank)
set(rank) == {rank[i] : i \in 1..Len(rank)}

RECURSIVE BuildDict(_, _, _)
\* the loop "for k in np.arange(N): dict[rank[k]] = k" from position k0 on;
\* a later occurrence of an identifier overwrites an earlier one
BuildDict(rank, k0, dict) ==
  IF k0 >= Len(rank) THEN dict
  ELSE BuildDict(rank, k0 + 1,
                 [id \in DOMAIN dict \cup {rank[k0 + 1]} |->
                    IF id = rank[k0 + 1] THEN k0 ELSE dict[id]])

EmptyDict == [id \in {} |-> 0]

RECURSIVE sorted(_)
\* sorted(keys): identifiers in increasing order
sorted(keys) ==
  IF keys = {} THEN <<>>
  ELSE LET m == CHOOSE x \in keys : \A y \in keys : x <= y
       IN <<m>> \o sorted(keys \ {m})

\* AlignedRanks sorting the items by rank instead of by identifier
AlignedRanks_by_rank(rank) ==
  LET dict == BuildDict(rank, 0, EmptyDict)
      ranks == sorted({dict[id] : id \in DOMAIN dict})
  IN ranks

\* [rank for _, rank in sorted(dict.items())]
AlignedRanks(rank) ==
  LET dict == BuildDict(rank, 0, EmptyDict)
      keys == sorted(DOMAIN dict)
  IN [i \in 1..Len(keys) |-> dict[keys[i]]]

\* pairs of positions i < j of a list of length n
Pairs(n) == {p \in (1..n) \X (1..n) : p[1] < p[2]}

\* scipy.stats.kendalltau(x, y), the coefficient (tau-b)
kendalltau(x, y) ==
  LET size == Len(x)
      tot == (size * (size - 1)) \div 2
      dis == Cardinality({p \in Pairs(size) :
                (x[p[1]] - x[p[2]]) * (y[p[1]] - y[p[2]]) < 0})
      xtie == Cardinality({p \in Pairs(size) : x[p[1]] = x[p[2]]})
      ytie == Cardinality({p \in Pairs(size) : y[p[1]] = y[p[2]]})
      ntie == Cardinality({p \in Pairs(size) :
                x[p[1]] = x[p[2]] /\ y[p[1]] = y[p[2]]})
      con_minus_dis == tot - xtie - ytie + ntie - 2 * dis
  IN IF size = 0 THEN NaN
     ELSE IF xtie = tot \/ ytie = tot THEN NaN
     ELSE IF xtie = 0 /\ ytie = 0 THEN Fin(con_minus_dis, tot)
     ELSE [kind |-> "taub", num |-> con_minus_dis,
           den |-> (tot - xtie) * (tot - ytie), root |-> 2]

\* kendall_tau with the two assertions in the opposite order
kendall_tau_set_first(rankA0, rankB0) ==
  IF set(rankA0) # set(rankB0) THEN Raise("SetMismatch")
  ELSE IF Len(rankA0) # Len(rankB0) THEN Raise("LengthMismatch")
  ELSE Ok(kendalltau(AlignedRanks(rankA0), AlignedRanks(rankB0)))

\* kendall_tau building B from dictA
kendall_tau_same_dict(rankA0, rankB0) ==
  IF Len(rankA0) # Len(rankB0) THEN Raise("LengthMismatch")
  ELSE IF set(rankA0) # set(rankB0) THEN Raise("SetMismatch")
  ELSE Ok(kendalltau(AlignedRanks(rankA0), AlignedRanks(rankA0)))

kendall_tau(rankA0, rankB0) ==
  IF Len(rankA0) # Len(rankB0) THEN Raise("LengthMismatch")
  ELSE IF set(rankA0) # set(rankB0) THEN Raise("SetMismatch")
  ELSE Ok(kendalltau(AlignedRanks(rankA0), AlignedRanks(rankB0)))

(***************************************************************************)
(* Inputs.                                                                  *)
(***************************************************************************)
SeqsUpTo(S, n) == UNION {[1..m -> S] : m \in 0..n}

\* the relevance list of the textbook example, judged to depth 10
ExampleRel == <<1, 1, 0, 0, 1, 0, 0, 1, 0, 0>>

\* the relevance list of the file's own test
MainRel == <<1, 1, 0, 0, 1, 0, 0, 1>>

RelInputs == SeqsUpTo({0, 1}, MaxLen) \cup {ExampleRel, MainRel}

DepthInputs(rel0) == (-1 .. Len(rel0) + MaxPad) \cup {20}

NumRelDocsInputs == (-1 .. MaxR) \cup {10}

BatchRelInputs == SeqsUpTo({0, 1}, MaxBatchLen)

BatchInputs == SeqsUpTo(BatchRelInputs \X (0 .. MaxBatchR), MaxBatch)

Ids == 1 .. NumIds

RankInputs == SeqsUpTo(Ids, MaxRank)

(***************************************************************************)
(* The state machine: one call of one function.                             *)
(***************************************************************************)
NoArgs ==
  /\ rel = <<>> /\ k = 0 /\ num_rel_docs = 0 /\ rels = <<>>
  /\ rankA = <<>> /\ rankB = <<>>

Init ==
  /\ pc = "call"
  /\ result = NoResult
  /\ A = <<>> /\ B = <<>>
  /\ \/ /\ fn \in {"precision_at_k", "precision_at_k_wrapper"}
        /\ rel \in RelInputs
        /\ k \in DepthInputs(rel)
        /\ num_rel_docs = 0 /\ rels = <<>> /\ rankA = <<>> /\ rankB = <<>>
     \/ /\ fn = "mean_precision_at_k"
        /\ rels \in SeqsUpTo(BatchRelInputs, MaxBatch)
        /\ k \in 0 .. MaxBatchLen + 1
        /\ rel = <<>> /\ num_rel_docs = 0 /\ rankA = <<>> /\ rankB = <<>>
     \/ /\ fn = "average_precision"
        /\ rel \in RelInputs
        /\ num_rel_docs \in NumRelDocsInputs
        /\ k = 0 /\ rels = <<>> /\ rankA = <<>> /\ rankB = <<>>
     \/ /\ fn \in {"mean_average_precision", "geometric_mean_average_precision"}
        /\ rels \in BatchInputs
        /\ rel = <<>> /\ k = 0 /\ num_rel_docs = 0 /\ rankA = <<>> /\ rankB = <<>>
     \/ /\ fn = "kendall_tau"
        /\ rankA \in RankInputs
        /\ rankB \in RankInputs
        /\ rel = <<>> /\ k = 0 /\ num_rel_docs = 0 /\ rels = <<>>

Return(r) ==
  /\ result' = r
  /\ pc' = "done"
  /\ UNCHANGED <<fn, rel, k, num_rel_docs, rels, rankA, rankB>>

PrecisionAtK ==
  /\ pc = "call" /\ fn = "precision_at_k"
  /\ Return(precision_at_k(rel, k))
  /\ UNCHANGED <<A, B>>

PrecisionAtKWrapper ==
  /\ pc = "call" /\ fn = "precision_at_k_wrapper"
  /\ Return(precision_at_k_wrapper(rel, k))
  /\ UNCHANGED <<A, B>>

MeanPrecisionAtK ==
  /\ pc = "call" /\ fn = "mean_precision_at_k"
  /\ Return(mean_precision_at_k(rels, k))
  /\ UNCHANGED <<A, B>>

AveragePrecision ==
  /\ pc = "call" /\ fn = "average_precision"
  /\ Return(average_precision(rel, num_rel_docs))
  /\ UNCHANGED <<A, B>>

MeanAveragePrecision ==
  /\ pc = "call" /\ fn = "mean_average_precision"
  /\ Return(mean_average_precision(rels))
  /\ UNCHANGED <<A, B>>

GeometricMeanAveragePrecision ==
  /\ pc = "call" /\ fn = "geometric_mean_average_precision"
  /\ Return(geometric_mean_average_precision(rels))
  /\ UNCHANGED <<A, B>>

\* the local arrays A and B exist once both assertions have passed
KendallTau ==
  /\ pc = "call" /\ fn = "kendall_tau"
  /\ Return(kendall_tau(rankA, rankB))
  /\ IF kendall_tau(rankA, rankB).status = "ok"
     THEN A' = AlignedRanks(rankA) /\ B' = AlignedRanks(rankB)
     ELSE UNCHANGED <<A, B>>

Next ==
  \/ PrecisionAtK
  \/ PrecisionAtKWrapper
  \/ MeanPrecisionAtK
  \/ AveragePrecision
  \/ MeanAveragePrecision
  \/ GeometricMeanAveragePrecision
  \/ KendallTau

Spec == Init /\ [][Next]_vars

(***************************************************************************)
(* Properties.                                                              *)
(***************************************************************************)
\* number of 1s among the first k0 entries of rel0
Ones(rel0, k0) == Cardinality({i \in 1..k0 : rel0[i] = 1})

\* a finite value rounded to 3 decimals, in thousandths (value >= 0)
Round3(v) == (2000 * v.num + v.den) \div (2 * v.den)

\* v is the rational n/d
IsRat(v, n, d) == v.kind = "fin" /\ v.root = 1 /\ v.num * d = n * v.den

Returned(f) == pc = "done" /\ fn = f

ExampleExact ==
  << <<1, 1>>, <<1, 1>>, <<2, 3>>, <<1, 2>>, <<3, 5>>,
     <<1, 2>>, <<3, 7>>, <<1, 2>>, <<4, 9>>, <<2, 5>> >>

ExampleRounded == <<1000, 1000, 667, 500, 600, 500, 429, 500, 444, 400>>

\* C1: for a 0/1 list and 1 <= k <= len(rel), precision_at_k(rel, k) is the
\* number of 1s among the first k entries divided by k; for the example list
\* the values at k = 1..10 are 1, 1, 2/3, 1/2, 3/5, 1/2, 3/7, 1/2, 4/9, 2/5.
C1_PrecisionIsFractionOfOnes ==
  (Returned("precision_at_k") /\ 1 <= k /\ k <= Len(rel)) =>
    /\ result.status = "ok"
    /\ IsRat(result.value, Ones(rel, k), k)
    /\ rel = ExampleRel =>
         /\ IsRat(result.value, ExampleExact[k][1], ExampleExact[k][2])
         /\ Round3(result.value) = ExampleRounded[k]

C1_Witness ==
  /\ Returned("precision_at_k") /\ rel = ExampleRel /\ k = 7
  /\ result.status = "ok" /\ IsRat(result.value, 3, 7)

\* C2: precision_at_k raises InvalidDepth, returning nothing, exactly when
\* k < 1 or k > len(rel); for 1 <= k <= len(rel) it returns a value.
C2_InvalidDepthExactlyOutOfRange ==
  Returned("precision_at_k") =>
    /\ (result.status = "InvalidDepth" /\ result.value = NoValue)
         <=> (k < 1 \/ k > Len(rel))
    /\ (1 <= k /\ k <= Len(rel)) =>
         (result.status = "ok" /\ result.value.kind = "fin")

C2_Witness ==
  /\ Returned("precision_at_k") /\ Len(rel) >= 1 /\ k = Len(rel) + 1
  /\ result.status = "InvalidDepth"

\* rel0 extended with zeros to length k0
Padded(rel0, k0) == [i \in 1..k0 |-> IF i <= Len(rel0) THEN rel0[i] ELSE 0]

\* C3: for a non-empty list and k > len(rel), precision_at_k_wrapper(rel, k)
\* returns precision_at_k of the list padded with zeros to length k, does not
\* raise, and is at most precision_at_k(rel, len(rel)); for 1 <= k <= len(rel)
\* it returns precision_at_k(rel, k).
C3_WrapperPadsWithZeros ==
  (Returned("precision_at_k_wrapper") /\ Len(rel) >= 1) =>
    /\ k > Len(rel) =>
         /\ result.status = "ok"
         /\ result = precision_at_k(Padded(rel, k), k)
         /\ IsRat(result.value, Ones(rel, Len(rel)), k)
         /\ RatLeq(result.value, precision_at_k(rel, Len(rel)).value)
    /\ (1 <= k /\ k <= Len(rel)) =>
         /\ result = precision_at_k(rel, k)
         /\ IsRat(result.value, Ones(rel, k), k)

C3_Witness ==
  /\ Returned("precision_at_k_wrapper") /\ rel = MainRel /\ k = 20
  /\ result.status = "ok" /\ IsRat(result.value, 1, 5)

RECURSIVE SumAtRelevantRanks(_, _)
\* the sum of (number of 1s among the first j) / j over the ranks j <= n
\* that hold a 1
SumAtRelevantRanks(rel0, n) ==
  IF n = 0 THEN Zero
  ELSE ExtAdd(SumAtRelevantRanks(rel0, n - 1),
              IF rel0[n] = 1 THEN Fin(Ones(rel0, n), n) ELSE Zero)

\* C4: for R > 0, average_precision(rel, R) is the sum of precision@j over
\* the ranks j with rel[j-1] = 1, divided by R (not by the length of the
\* list, not by the number of 1s); it is 0 when the list holds no 1.
C4_AveragePrecisionDividesByR ==
  (Returned("average_precision") /\ num_rel_docs > 0) =>
    LET S == SumAtRelevantRanks(rel, Len(rel))
    IN /\ result.status = "ok"
       /\ IsRat(result.value, S.num, S.den * num_rel_docs)
       /\ Ones(rel, Len(rel)) = 0 => result.value = Zero

C4_Witness ==
  /\ Returned("average_precision") /\ num_rel_docs > 0
  /\ Ones(rel, Len(rel)) > 0
  /\ num_rel_docs \notin {Len(rel), Ones(rel, Len(rel))}
  /\ result.status = "ok"
  /\ ~IsRat(result.value, SumAtRelevantRanks(rel, Len(rel)).num,
            SumAtRelevantRanks(rel, Len(rel)).den * Len(rel))

\* the sum of precision@k at the ranks 1, 2, 5, 8 of the example, over 10
ExampleAP ==
  ExtDivInt(np_sum(<<precision_at_k(ExampleRel, 1).value,
                     precision_at_k(ExampleRel, 2).value,
                     precision_at_k(ExampleRel, 5).value,
                     precision_at_k(ExampleRel, 8).value>>), 10)

\* C5 as stated: for the example list and R = 10 the average precision is
\* 0.558 to 3 decimals.
C5_Original ==
  (Returned("average_precision") /\ rel = ExampleRel /\ num_rel_docs = 10) =>
    /\ result.status = "ok"
    /\ Round3(result.value) = 558

\* C5 amended: for the example list and R = 10 the average precision is the
\* sum of precision@k at the relevant ranks 1, 2, 5, 8 divided by 10, which
\* is 31/100 = 0.310.
C5_ExampleAveragePrecision ==
  (Returned("average_precision") /\ rel = ExampleRel /\ num_rel_docs = 10) =>
    /\ result.status = "ok"
    /\ result.value = ExampleAP
    /\ IsRat(result.value, 31, 100)
    /\ Round3(result.value) = 310

C5_Witness ==
  /\ Returned("average_precision") /\ rel = ExampleRel /\ num_rel_docs = 10
  /\ result.status = "ok" /\ result.value.kind = "fin"

\* C6 as stated: average_precision called with R <= 0 raises
\* InvalidNormalizer and returns no numeric result, whatever the list.
C6_InvalidNormalizerRaised ==
  (Returned("average_precision") /\ num_rel_docs <= 0) =>
    /\ result.status = "InvalidNormalizer"
    /\ result.value = NoValue

\* the batch holds at least one pair and every relevant-document count is > 0
ValidBatch(rels0) ==
  /\ Len(rels0) >= 1
  /\ \A i \in 1..Len(rels0) : rels0[i][2] > 0

\* element i of the batch has average precision 0: its list holds no 1
ZeroAP(rels0, i) == Ones(rels0[i][1], Len(rels0[i][1])) = 0

RECURSIVE SumOfAPs(_, _)
\* the sum of the average precisions of the first n elements of the batch
SumOfAPs(rels0, n) ==
  IF n = 0 THEN Zero
  ELSE LET S == SumAtRelevantRanks(rels0[n][1], Len(rels0[n][1]))
       IN ExtAdd(SumOfAPs(rels0, n - 1), Fin(S.num, S.den * rels0[n][2]))

\* C7: on a non-empty batch with every R > 0, gMAP returns 0 without raising
\* when some element has average precision 0, and is strictly positive when
\* none has; MAP of the same batch returns the sum of the average precisions
\* divided by the batch size.
C7_ZeroAPDrivesGMAPToZero ==
  /\ (Returned("geometric_mean_average_precision") /\ ValidBatch(rels)) =>
       /\ result.status = "ok"
       /\ (\E i \in 1..Len(rels) : ZeroAP(rels, i)) => result.value = Zero
       /\ (\A i \in 1..Len(rels) : ~ZeroAP(rels, i)) =>
            (result.value.kind = "fin" /\ result.value.num > 0
               /\ result.value.den > 0)
  /\ (Returned("mean_average_precision") /\ ValidBatch(rels)) =>
       /\ result.status = "ok"
       /\ IsRat(result.value, SumOfAPs(rels, Len(rels)).num,
                SumOfAPs(rels, Len(rels)).den * Len(rels))

C7_Witness ==
  /\ Returned("geometric_mean_average_precision") /\ ValidBatch(rels)
  /\ Len(rels) = 2
  /\ ZeroAP(rels, 1) /\ ~ZeroAP(rels, 2)
  /\ result = Ok(Zero)

\* the identifiers of a ranked list
IdsOf(rank) == {rank[i] : i \in DOMAIN rank}

\* C8: kendall_tau raises LengthMismatch whenever the lengths differ (also
\* when the identifier sets differ too), raises SetMismatch whenever the
\* lengths are equal and the identifier sets differ, and returns a result
\* only when lengths and identifier sets are both equal.
C8_KendallValidation ==
  Returned("kendall_tau") =>
    /\ Len(rankA) # Len(rankB) =>
         (result.status = "LengthMismatch" /\ result.value = NoValue)
    /\ (Len(rankA) = Len(rankB) /\ IdsOf(rankA) # IdsOf(rankB)) =>
         (result.status = "SetMismatch" /\ result.value = NoValue)
    /\ result.status = "ok" <=>
         (Len(rankA) = Len(rankB) /\ IdsOf(rankA) = IdsOf(rankB))

C8_Witness ==
  /\ Returned("kendall_tau")
  /\ Len(rankA) # Len(rankB) /\ IdsOf(rankA) # IdsOf(rankB)
  /\ result.status = "LengthMismatch"

\* the identifiers of the list are pairwise distinct
Distinct(rank) == Cardinality(IdsOf(rank)) = Len(rank)

Reverse(rank) == [i \in 1..Len(rank) |-> rank[Len(rank) + 1 - i]]

\* concordant minus discordant pairs of the aligned arrays
ConMinusDis(x, y) ==
  Cardinality({p \in Pairs(Len(x)) : (x[p[1]] - x[p[2]]) * (y[p[1]] - y[p[2]]) > 0})
  - Cardinality({p \in Pairs(Len(x)) : (x[p[1]] - x[p[2]]) * (y[p[1]] - y[p[2]]) < 0})

\* the coefficient relations of C9 for lists of at least n0 identifiers
SelfAndReverse(n0) ==
  (Returned("kendall_tau") /\ Distinct(rankA) /\ Len(rankA) >= n0) =>
    /\ rankB = rankA => (result.status = "ok" /\ IsRat(result.value, 1, 1))
    /\ rankB = Reverse(rankA) =>
         (result.status = "ok" /\ IsRat(result.value, -1, 1))

\* C9 as stated: for a list x of pairwise distinct identifiers of any length
\* >= 1 the coefficient of kendall_tau(x, x) is 1 and that of
\* kendall_tau(x, reverse(x)) is -1.
C9_Original == SelfAndReverse(1)

\* C9 amended: for a list x of pairwise distinct identifiers of length >= 2
\* the coefficient of kendall_tau(x, x) is 1 and that of
\* kendall_tau(x, reverse(x)) is -1, the coefficient of every valid pair of
\* such lists being (concordant - discordant) / (N(N-1)/2) over the aligned
\* arrays; for a list of length 1 the coefficient is NaN.
C9_SelfOneReverseMinusOne ==
  /\ SelfAndReverse(2)
  /\ (Returned("kendall_tau") /\ result.status = "ok"
        /\ Distinct(rankA) /\ Distinct(rankB)) =>
       IF Len(rankA) >= 2
       THEN IsRat(result.value, ConMinusDis(A, B),
                  (Len(rankA) * (Len(rankA) - 1)) \div 2)
       ELSE result.value = NaN

C9_Witness ==
  /\ Returned("kendall_tau") /\ Distinct(rankA) /\ Len(rankA) = 3
  /\ rankB = Reverse(rankA)
  /\ result.status = "ok" /\ IsRat(result.value, -1, 1)

\* the i-th identifier of S in increasing order
IthId(S, i) == CHOOSE x \in S : Cardinality({y \in S : y < x}) = i - 1

\* arr[i] is a 0-based position in rank of the i-th identifier of S
PositionsOf(arr, rank, S) ==
  \A i \in 1..Len(arr) :
    /\ arr[i] + 1 \in DOMAIN rank
    /\ rank[arr[i] + 1] = IthId(S, i)

\* arr is a permutation of 0..n-1
IsPermutation(arr, n) ==
  /\ Len(arr) = n
  /\ {arr[i] : i \in 1..Len(arr)} = 0 .. n - 1

\* C10: when kendall_tau's validation passes, A and B have the same length
\* and A[i], B[i] are the 0-based positions in rankA, rankB of the i-th
\* identifier in sorted order; when both lists have pairwise distinct
\* identifiers, A and B are permutations of 0..N-1 (no duplicate position).
C10_AlignedPositions ==
  (Returned("kendall_tau") /\ result.status = "ok") =>
    /\ Len(A) = Len(B)
    /\ Len(A) = Cardinality(IdsOf(rankA))
    /\ PositionsOf(A, rankA, IdsOf(rankA))
    /\ PositionsOf(B, rankB, IdsOf(rankA))
    /\ (Distinct(rankA) /\ Distinct(rankB)) =>
         (IsPermutation(A, Len(rankA)) /\ IsPermutation(B, Len(rankB)))

C10_Witness ==
  /\ Returned("kendall_tau") /\ result.status = "ok"
  /\ Distinct(rankA) /\ Len(rankA) = 3 /\ rankA # rankB
  /\ A # B /\ IsPermutation(A, 3) /\ IsPermutation(B, 3)

====
